---- MODULE Spec2Model ----
(***************************************************************************)
(* Text analysis engine of textstation-suite-gws: getMediaRules and        *)
(* analyzeText of the text processor, the snippet functions of the         *)
(* utilities and the API server (all kept in src/firestore.rules), and     *)
(* generatePDF (src/export.js).                                            *)
(*                                                                         *)
(* A JavaScript string is a sequence of UTF-16 code units; a code unit is  *)
(* a one-element TLA+ string.  Code units outside ASCII carry their code   *)
(* point as a name: "U3002" is the ideographic full stop, "UFF0E" the      *)
(* fullwidth full stop, "UFF01" and "UFF1F" the fullwidth exclamation and  *)
(* question marks, "U3000" the ideographic space.                          *)
(***************************************************************************)
EXTENDS Integers, Sequences, FiniteSets, TLC

VARIABLES
    text,              \* analyzeText: argument text
    mediaRules,        \* analyzeText: argument mediaRules
    detailedAnalysis,  \* analyzeText: argument detailedAnalysis
    outcome,           \* analyzeText: what the call returned or threw
    pc,                \* the call of analyzeText or getMediaRules: "none", "called",
                       \* "returned", "caught"
    styleRules,        \* the styleRules collection of the database, in document order
    mediaType,         \* getMediaRules: argument mediaType
    snapshot,          \* getMediaRules: the documents the query returned
    fetched,           \* getMediaRules: what the call returned or threw
    requests,          \* the API server: the requests and how far each has come
    storeReads,        \* the API server: what each query.get() made for a request returned
    exportCall,        \* generatePDF: the call, the bucket and the drive
    snippets,          \* the snippets collection of the database, by document id
    snippetCalls,      \* the calls of saveSnippet, updateSnippet and deleteSnippet
    served             \* the API server, every route: the requests received

callVars == <<text, mediaRules, detailedAnalysis, outcome>>
fetchVars == <<mediaType, snapshot, fetched>>
analyzeVars == <<requests, storeReads>>
exportVars == <<exportCall>>
snippetVars == <<snippets, snippetCalls>>
routeVars == <<served>>
vars == <<text, mediaRules, detailedAnalysis, outcome, pc, styleRules, mediaType,
          snapshot, fetched, requests, storeReads, exportCall, snippets,
          snippetCalls, served>>

Max(a, b) == IF a >= b THEN a ELSE b

(***************************************************************************)
(* Character classes.                                                      *)
(***************************************************************************)
\* The class of the split at line 823.
SentenceEnd == {"U3002", "UFF0E", ".", "!", "?", "UFF01", "UFF1F"}

\* What String.prototype.trim strips and \s matches (those used here).
WhiteSpace == {" ", "\n", "U3000"}

\* What the regular expression atom . does not match.
LineTerminators == {"\n"}

Digits == {"0", "1", "2", "3", "4", "5", "6", "7", "8", "9"}

DigitValue(c) ==
    CASE c = "0" -> 0 [] c = "1" -> 1 [] c = "2" -> 2 [] c = "3" -> 3
      [] c = "4" -> 4 [] c = "5" -> 5 [] c = "6" -> 6 [] c = "7" -> 7
      [] c = "8" -> 8 [] c = "9" -> 9

(***************************************************************************)
(* String operations of the JavaScript runtime, as analyzeText uses them.  *)
(***************************************************************************)
\* String.prototype.trim
Trim(s) ==
    LET keep == {i \in 1..Len(s) : s[i] \notin WhiteSpace}
    IN  IF keep = {} THEN <<>>
        ELSE LET first == CHOOSE i \in keep : \A j \in keep : i <= j
                 last  == CHOOSE i \in keep : \A j \in keep : j <= i
             IN  SubSeq(s, first, last)

\* String.prototype.slice(-k)
SliceLast(s, k) == SubSeq(s, Max(1, Len(s) - k + 1), Len(s))

\* text.split(/[...]/): the segments between sentence terminators, the empty
\* ones included; a text with t terminators has t + 1 segments.
Split(s) ==
    LET ends == {i \in 1..Len(s) : s[i] \in SentenceEnd}
        n    == Cardinality(ends)
        \* position of the k-th terminator; 0 before the first, Len+1 after the last
        at(k) == IF k = 0 THEN 0
                 ELSE IF k = n + 1 THEN Len(s) + 1
                 ELSE CHOOSE i \in ends : Cardinality({j \in ends : j <= i}) = k
    IN  [k \in 1..(n + 1) |-> SubSeq(s, at(k - 1) + 1, at(k) - 1)]

(***************************************************************************)
(* new RegExp(source, 'g') and text.match(regex), for the pattern sources  *)
(* of this model: a source is a sequence of atoms, "." matching every code *)
(* unit but a line terminator, "(" opening a group that nothing closes     *)
(* (a SyntaxError), every other atom matching itself.                      *)
(***************************************************************************)
RegExpThrows(source) == \E i \in 1..Len(source) : source[i] = "("

AtomMatches(a, c) == IF a = "." THEN c \notin LineTerminators ELSE a = c

MatchesAt(source, s, i) ==
    /\ i + Len(source) - 1 <= Len(s)
    /\ \A j \in 1..Len(source) : AtomMatches(source[j], s[i + j - 1])

\* Variant: a scan that resumes one code unit after the start of a match, and so
\* counts matches that overlap.
RECURSIVE ScanOverlapping(_, _, _)
ScanOverlapping(source, s, i) ==
    IF i > Len(s) + 1 THEN 0
    ELSE IF MatchesAt(source, s, i)
         THEN 1 + ScanOverlapping(source, s, i + 1)
         ELSE ScanOverlapping(source, s, i + 1)

\* The global scan: leftmost match first, the next one sought after its end
\* (one further on after an empty match); lastIndex runs from 0 to s.length.
RECURSIVE ScanFrom(_, _, _)
ScanFrom(source, s, i) ==
    IF i > Len(s) + 1 THEN 0
    ELSE IF MatchesAt(source, s, i)
         THEN 1 + ScanFrom(source, s, i + Max(1, Len(source)))
         ELSE ScanFrom(source, s, i + 1)

\* (text.match(regex) || []).length
MatchCount(source, s) == ScanFrom(source, s, 1)

(***************************************************************************)
(* analyzeText (src/firestore.rules, lines 792-901).                       *)
(***************************************************************************)
MaxScore == 100
IssueWeight == 5
BaselineLimit == 70
EndingLen == 5
RepeatLimit == 3
AvgLengthLimit == 50
ReadabilityBase == 100
ReadabilityDivisor == 10
ReadabilityLimit == 60

\* The result object as constructed at lines 795-801.
NewResult ==
    [mediaScore |-> 0, ambiguousPhrases |-> <<>>, repetitiveEndings |-> <<>>,
     mediaSpecificIssues |-> <<>>, improvements |-> <<>>]

\* Variant: the guard without its trim() test.
IsBlankNoTrim(s) == Len(s) = 0

\* !text || text.trim() === ''
IsBlank(s) == Len(s) = 0 \/ Trim(s) = <<>>

\* The SyntaxError of new RegExp(source, 'g').
SyntaxError(source) == <<"Invalid regular expression", source>>

\* mediaRules.ambiguousPhrases.forEach(...): the entries pushed, in rule order,
\* or the error of the first rule whose pattern does not compile.
RECURSIVE AmbiguousFrom(_, _, _, _)
AmbiguousFrom(phrases, s, i, found) ==
    IF i > Len(phrases) THEN [threw |-> FALSE, found |-> found]
    ELSE IF RegExpThrows(phrases[i].text)
         THEN [threw |-> TRUE, error |-> SyntaxError(phrases[i].text)]
         ELSE LET n == MatchCount(phrases[i].text, s)
              IN  AmbiguousFrom(phrases, s, i + 1,
                      IF n > 0
                      THEN Append(found, [text |-> phrases[i].text, count |-> n,
                                          suggestion |-> phrases[i].suggestion])
                      ELSE found)

DetectAmbiguous(phrases, s) == AmbiguousFrom(phrases, s, 1, <<>>)

\* endingPatterns[ending] = (endingPatterns[ending] || 0) + 1 on an object kept
\* as the sequence of its properties [key, count] in creation order.
Increment(obj, key) ==
    IF \E i \in 1..Len(obj) : obj[i].key = key
    THEN [i \in 1..Len(obj) |->
             IF obj[i].key = key THEN [key |-> key, count |-> obj[i].count + 1]
             ELSE obj[i]]
    ELSE Append(obj, [key |-> key, count |-> 1])

\* sentences.forEach(...) of lines 826-833.
RECURSIVE TallyFrom(_, _, _)
TallyFrom(sentences, i, obj) ==
    IF i > Len(sentences) THEN obj
    ELSE LET trimmed == Trim(sentences[i])
         IN  TallyFrom(sentences, i + 1,
                 IF Len(trimmed) = 0 THEN obj
                 ELSE Increment(obj, SliceLast(trimmed, EndingLen)))

TallyEndings(sentences) == TallyFrom(sentences, 1, <<>>)

RECURSIVE NumValue(_)
NumValue(key) ==
    IF Len(key) = 0 THEN 0
    ELSE 10 * NumValue(SubSeq(key, 1, Len(key) - 1)) + DigitValue(key[Len(key)])

\* An array index in the sense of the language: the canonical decimal form of an
\* integer below 2^32 - 1, which every such form of at most 9 digits is.
IsArrayIndex(key) ==
    /\ Len(key) \in 1..9
    /\ \A i \in 1..Len(key) : key[i] \in Digits
    /\ Len(key) = 1 \/ key[1] # "0"

\* Object.entries(obj): the array-index keys in ascending numeric order, then the
\* other keys in creation order.
ObjectEntries(obj) ==
    LET idx     == {i \in 1..Len(obj) : IsArrayIndex(obj[i].key)}
        rank(i) == 1 + Cardinality({j \in idx :
                                     NumValue(obj[j].key) < NumValue(obj[i].key)})
        byValue == [k \in 1..Cardinality(idx) |->
                        obj[CHOOSE i \in idx : rank(i) = k]]
    IN  byValue \o SelectSeq(obj, LAMBDA e : ~IsArrayIndex(e.key))

\* Variant: a threshold one too high.
IsRepetitiveStrict(count) == count > RepeatLimit

\* if (count >= 3)
IsRepetitive(count) == count >= RepeatLimit

\* The loop of lines 835-843 over the entries.
RECURSIVE EndingsFrom(_, _, _)
EndingsFrom(entries, i, found) ==
    IF i > Len(entries) THEN found
    ELSE EndingsFrom(entries, i + 1,
             IF IsRepetitive(entries[i].count)
             THEN Append(found, [pattern |-> entries[i].key,
                                 count |-> entries[i].count,
                                 suggestion |-> <<"vary the ending, used",
                                                  entries[i].count, "times">>])
             ELSE found)

DetectEndings(sentences) == EndingsFrom(ObjectEntries(TallyEndings(sentences)), 1, <<>>)

\* mediaRules.mediaSpecificRules.forEach(...) of lines 846-857.
RECURSIVE MediaSpecificFrom(_, _, _, _)
MediaSpecificFrom(rules, s, i, found) ==
    IF i > Len(rules) THEN [threw |-> FALSE, found |-> found]
    ELSE IF RegExpThrows(rules[i].pattern)
         THEN [threw |-> TRUE, error |-> SyntaxError(rules[i].pattern)]
         ELSE LET n == MatchCount(rules[i].pattern, s)
              IN  MediaSpecificFrom(rules, s, i + 1,
                      IF n > 0
                      THEN Append(found, [pattern |-> rules[i].pattern, count |-> n,
                                          description |-> rules[i].description])
                      ELSE found)

DetectMediaSpecific(rules, s) == MediaSpecificFrom(rules, s, 1, <<>>)

\* Variant: the score without its floor.
MediaScoreNoFloor(totalIssues) == MaxScore - totalIssues * IssueWeight

\* Math.max(0, maxScore - (totalIssues * issueWeight))
MediaScore(totalIssues) == Max(0, MaxScore - totalIssues * IssueWeight)

\* Math.round of the quotient a / b of two positive integers.
RoundDiv(a, b) == (2 * a + b) \div (2 * b)

\* The advisory pushed at line 871.
BaselineAdvice(score) == IF score < BaselineLimit THEN <<<<"baseline">>>> ELSE <<>>

\* Variant: an average over the segments that are not empty, one at least.
LengthAdviceNonEmpty(s, sentences) ==
    LET n == Max(1, Cardinality({k \in DOMAIN sentences : Len(sentences[k]) > 0}))
    IN  IF Len(s) > AvgLengthLimit * n
        THEN <<<<"length", RoundDiv(Len(s), n)>>>>
        ELSE <<>>

\* The advisory pushed at line 880: averageSentenceLength = text.length /
\* sentences.length, compared and rounded as a real number.
LengthAdvice(s, sentences) ==
    IF Len(s) > AvgLengthLimit * Len(sentences)
    THEN <<<<"length", RoundDiv(Len(s), Len(sentences))>>>>
    ELSE <<>>

\* The advisory pushed at line 892: readabilityScore = 100 - (characterCount /
\* sentenceCount / 10) < 60, over the reals.
ReadabilityAdvice(s, sentences) ==
    LET characterCount == Cardinality({i \in 1..Len(s) : s[i] \notin WhiteSpace})
        sentenceCount  == Len(sentences)
    IN  IF characterCount >
              (ReadabilityBase - ReadabilityLimit) * ReadabilityDivisor * sentenceCount
        THEN <<<<"readability">>>>
        ELSE <<>>

\* Variant: the detailed analysis run whatever the flag.
DetailedAdviceAlways(s, sentences, detailed) ==
    LengthAdvice(s, sentences) \o ReadabilityAdvice(s, sentences)

\* if (detailedAnalysis) { ... } of lines 875-894.
DetailedAdvice(s, sentences, detailed) ==
    IF detailed THEN LengthAdvice(s, sentences) \o ReadabilityAdvice(s, sentences)
    ELSE <<>>

\* Variant: a catch block that answers with an empty result, as the one of
\* getMediaRules does, where this one throws.
AnalysisErrorSwallowed(error) == [threw |-> FALSE, value |-> NewResult]

\* throw new Error('... : ' + error.message) of line 899.
AnalysisError(error) == [threw |-> TRUE, message |-> <<"text analysis failed">> \o error]

\* What a call analyzeText(s, rules, detailed) returns or throws.
analyzeText(s, rules, detailed) ==
    IF IsBlank(s) THEN [threw |-> FALSE, value |-> NewResult]
    ELSE LET amb == DetectAmbiguous(rules.ambiguousPhrases, s)
             sentences == Split(s)
             endings == DetectEndings(sentences)
             med == DetectMediaSpecific(rules.mediaSpecificRules, s)
         IN  IF amb.threw THEN AnalysisError(amb.error)
             ELSE IF med.threw THEN AnalysisError(med.error)
             ELSE LET score == MediaScore(Len(amb.found) + Len(endings) + Len(med.found))
                  IN  [threw |-> FALSE,
                       value |-> [mediaScore |-> score,
                                  ambiguousPhrases |-> amb.found,
                                  repetitiveEndings |-> endings,
                                  mediaSpecificIssues |-> med.found,
                                  improvements |-> BaselineAdvice(score) \o
                                      DetailedAdvice(s, sentences, detailed)]]

(***************************************************************************)
(* getMediaRules (src/firestore.rules, lines 739-787).  A document of the  *)
(* styleRules collection is a record with the fields isActive, mediaTypes  *)
(* and type and the fields of its type; a media type is a string, with     *)
(* "undefined" for an argument left out and "U4E00U822C" for the name of   *)
(* the general media type.                                                 *)
(***************************************************************************)
General == "U4E00U822C"

\* Variant: a test of mediaType alone, which takes the name of the general
\* media type for a media type to filter on.
RestrictsWhenGiven(mt) == mt # "undefined" /\ mt # ""

\* mediaType && mediaType !== General
RestrictsMediaType(mt) == mt # "undefined" /\ mt # "" /\ mt # General

\* The query of lines 742-746 as the filter it asks the database for.
BuildQuery(mt) ==
    [isActive |-> TRUE,
     arrayContains |-> IF RestrictsMediaType(mt) THEN <<mt>> ELSE <<>>]

\* query.get() on a collection: the matching documents in document order.
RunQuery(collection, query) ==
    SelectSeq(collection,
        LAMBDA doc : /\ doc.isActive = query.isActive
                     /\ \A i \in DOMAIN query.arrayContains :
                            query.arrayContains[i] \in doc.mediaTypes)

\* The rules object of lines 750-754.
RuleSet(amb, med) ==
    [ambiguousPhrases |-> amb, repetitivePatterns |-> <<>>, mediaSpecificRules |-> med]

EmptyRules == RuleSet(<<>>, <<>>)

\* Variant: a chain whose last branch is a plain else.
PushRuleElse(rules, data) ==
    IF data.type = "ambiguousPhrase"
    THEN [rules EXCEPT !.ambiguousPhrases =
              Append(@, [text |-> data.text, suggestion |-> data.suggestion])]
    ELSE IF data.type = "repetitivePattern"
    THEN [rules EXCEPT !.repetitivePatterns =
              Append(@, [pattern |-> data.pattern, suggestion |-> data.suggestion])]
    ELSE [rules EXCEPT !.mediaSpecificRules =
              Append(@, [pattern |-> data.pattern, description |-> data.description,
                         mediaType |-> data.mediaType])]

\* The body of snapshot.forEach, lines 757-775.
PushRule(rules, data) ==
    IF data.type = "ambiguousPhrase"
    THEN [rules EXCEPT !.ambiguousPhrases =
              Append(@, [text |-> data.text, suggestion |-> data.suggestion])]
    ELSE IF data.type = "repetitivePattern"
    THEN [rules EXCEPT !.repetitivePatterns =
              Append(@, [pattern |-> data.pattern, suggestion |-> data.suggestion])]
    ELSE IF data.type = "mediaSpecific"
    THEN [rules EXCEPT !.mediaSpecificRules =
              Append(@, [pattern |-> data.pattern, description |-> data.description,
                         mediaType |-> data.mediaType])]
    ELSE rules

\* snapshot.forEach(...) of lines 756-776.
RECURSIVE RulesFrom(_, _, _)
RulesFrom(docs, i, rules) ==
    IF i > Len(docs) THEN rules ELSE RulesFrom(docs, i + 1, PushRule(rules, docs[i]))

\* Variant: a catch block that throws on, as those of the other functions do.
RuleFetchRethrown == [threw |-> TRUE, message |-> <<"rule fetch failed">>]

\* The catch block of lines 779-786: what getMediaRules returns after a failure.
RuleFetchCaught == [threw |-> FALSE, value |-> EmptyRules]

\* What getMediaRules returns for the documents of its query.
RulesReturned(docs) == [threw |-> FALSE, value |-> RulesFrom(docs, 1, EmptyRules)]

(***************************************************************************)
(* Inputs of analyzeText.                                                  *)
(***************************************************************************)
MaxSentences == 6
MaxTextLen == 3
MaxRules == 2
MaxBulk == 25
MaxTerminators == 2

SeqsUpTo(S, n) == UNION {[1..k -> S] : k \in 0..n}

RECURSIVE Flatten(_)
Flatten(ss) == IF Len(ss) = 0 THEN <<>> ELSE Head(ss) \o Flatten(Tail(ss))

Repeat(x, n) == [i \in 1..n |-> x]

Phrase(source) == [text |-> source, suggestion |-> <<"say it otherwise">> \o source]

MediaRule(source) ==
    [pattern |-> source, description |-> <<"not for news">> \o source, mediaType |-> "news"]

\* Texts of up to MaxSentences pieces: sentences ending in "ab", in the digit
\* keys "7" and "12345" and in "07", with blanks around and after them.
EndingPieces ==
    { <<"a", "b", ".">>, <<"7", "U3002", " ">>,
      <<"x", "1", "2", "3", "4", "5", "!">>, <<"0", "7", "?">> }

EndingInputs ==
    { [text |-> Flatten(ps), mediaRules |-> EmptyRules, detailedAnalysis |-> FALSE] :
        ps \in SeqsUpTo(EndingPieces, MaxSentences) }

\* Short texts against every list of up to MaxRules phrase patterns.
PhraseSources == { <<"a">>, <<"a", "a">>, <<".">>, <<"(">>, <<>> }

MediaLists ==
    { <<>>, <<MediaRule(<<"a">>)>>, <<MediaRule(<<"(">>)>>,
      <<MediaRule(<<"A">>), MediaRule(<<"a">>)>> }

ShortTexts == SeqsUpTo({"a", "A", "."}, MaxTextLen)

PhraseInputs ==
    { [text |-> t, mediaRules |-> RuleSet(amb, <<>>), detailedAnalysis |-> FALSE] :
        t \in ShortTexts,
        amb \in { [i \in DOMAIN ss |-> Phrase(ss[i])] :
                    ss \in SeqsUpTo(PhraseSources, MaxRules) } }

\* Short texts against the media-specific lists, after a phrase rule or none.
MediaInputs ==
    { [text |-> t, mediaRules |-> RuleSet(amb, med), detailedAnalysis |-> FALSE] :
        t \in ShortTexts,
        amb \in {<<>>, <<Phrase(<<"a">>)>>, <<Phrase(<<"(">>)>>},
        med \in MediaLists }

\* Up to MaxBulk matching rules on one text.
BulkInputs ==
    { [text |-> <<"a", ".">>,
       mediaRules |-> RuleSet(Repeat(Phrase(<<"a">>), n), med),
       detailedAnalysis |-> d] :
        n \in 0..MaxBulk, med \in MediaLists, d \in BOOLEAN }

\* Long texts around the thresholds of the detailed analysis: w blanks, n
\* letters and t terminators, n within a few of 50 and of 400 per segment.
DetailTexts ==
    { Repeat(" ", w) \o Repeat("a", k * (t + 1) + d) \o Repeat(".", t) :
        w \in 0..1, t \in 0..MaxTerminators, d \in (0 - 3)..1,
        k \in {AvgLengthLimit,
               (ReadabilityBase - ReadabilityLimit) * ReadabilityDivisor} }

DetailInputs ==
    { [text |-> t, mediaRules |-> r, detailedAnalysis |-> d] :
        t \in DetailTexts,
        r \in {EmptyRules, RuleSet(Repeat(Phrase(<<"a", "a", "a", "a">>), 7), <<>>)},
        d \in BOOLEAN }

\* Empty and blank texts, also against a rule that does not compile.
BlankInputs ==
    { [text |-> t, mediaRules |-> r, detailedAnalysis |-> d] :
        t \in {<<>>, <<" ">>, <<" ", "\n">>, <<"U3000", " ", " ">>,
               Repeat(" ", AvgLengthLimit + 1), Repeat(" ", 2 * AvgLengthLimit)},
        r \in {EmptyRules, RuleSet(<<Phrase(<<"(">>)>>, <<>>),
               RuleSet(<<Phrase(<<>>)>>, <<MediaRule(<<"(">>)>>)},
        d \in BOOLEAN }

AnalyzeInputs ==
    EndingInputs \cup PhraseInputs \cup MediaInputs \cup BulkInputs
        \cup DetailInputs \cup BlankInputs

NoOutcome == [threw |-> FALSE, pending |-> TRUE]

Requests == {"r1", "r2"}

NoBody == [text |-> <<>>, mediaType |-> "undefined", detailedAnalysis |-> FALSE]

\* A request that has not arrived.
NoRequest ==
    [pc |-> "idle", apiKey |-> "undefined", body |-> NoBody, mediaRules |-> EmptyRules,
     analysis |-> NoOutcome, log |-> <<>>, response |-> [status |-> 0]]

\* No call of analyzeText, no call of getMediaRules, no request.
NoCall ==
    /\ text = <<>> /\ mediaRules = EmptyRules /\ detailedAnalysis = FALSE
    /\ outcome = NoOutcome
NoFetch == mediaType = "undefined" /\ snapshot = <<>> /\ fetched = NoOutcome
NoServer ==
    /\ requests = [r \in Requests |-> NoRequest]
    /\ storeReads = [r \in Requests |-> <<>>]
NoExport == exportCall = [pc |-> "none"]
NoSnippets == snippets = <<>> /\ snippetCalls = <<>>
NoRoutes == served = <<>>

InitAnalyze ==
    /\ \E in \in AnalyzeInputs :
          /\ text = in.text
          /\ mediaRules = in.mediaRules
          /\ detailedAnalysis = in.detailedAnalysis
    /\ outcome = NoOutcome
    /\ pc = "called"
    /\ styleRules = <<>> /\ NoFetch /\ NoServer
    /\ NoExport /\ NoSnippets /\ NoRoutes

\* One call of analyzeText; the function has no await, so the call is one step.
AnalyzeCall ==
    /\ pc = "called"
    /\ outcome' = analyzeText(text, mediaRules, detailedAnalysis)
    /\ pc' = "returned"
    /\ UNCHANGED <<text, mediaRules, detailedAnalysis, styleRules, fetchVars,
                   analyzeVars, exportVars, snippetVars, routeVars>>

NextAnalyze == AnalyzeCall

SpecAnalyze == InitAnalyze /\ [][NextAnalyze]_vars

(***************************************************************************)
(* One call of getMediaRules on a collection of up to MaxDocs documents.   *)
(***************************************************************************)
MaxDocs == 3

DocAmbiguous(source, active, types) ==
    [type |-> "ambiguousPhrase", isActive |-> active, mediaTypes |-> types,
     text |-> source, suggestion |-> <<"say it otherwise">> \o source]

DocRepetitive(source, types) ==
    [type |-> "repetitivePattern", isActive |-> TRUE, mediaTypes |-> types,
     pattern |-> source, suggestion |-> <<"vary">> \o source]

DocMediaSpecific(source, types) ==
    [type |-> "mediaSpecific", isActive |-> TRUE, mediaTypes |-> types,
     pattern |-> source, description |-> <<"not for news">> \o source,
     mediaType |-> "news"]

\* A document of a type that getMediaRules does not know.
DocOther(types) ==
    [type |-> "memo", isActive |-> TRUE, mediaTypes |-> types, text |-> <<"m">>,
     pattern |-> <<"m">>, suggestion |-> <<"memo">>, description |-> <<"memo">>,
     mediaType |-> "news"]

Documents ==
    { DocAmbiguous(<<"a">>, TRUE, {"news"}), DocAmbiguous(<<"A">>, FALSE, {"news", "blog"}),
      DocRepetitive(<<"b">>, {"news", "blog"}), DocRepetitive(<<"c">>, {"news"}),
      DocMediaSpecific(<<"a">>, {"blog"}), DocOther({"news"}) }

MediaTypes == {"undefined", "", General, "news", "blog"}

InitRules ==
    /\ styleRules \in SeqsUpTo(Documents, MaxDocs)
    /\ mediaType \in MediaTypes
    /\ snapshot = <<>> /\ fetched = NoOutcome
    /\ pc = "called"
    /\ NoCall /\ NoServer
    /\ NoExport /\ NoSnippets /\ NoRoutes

\* The query succeeds: lines 741-778.
QueryGet ==
    /\ pc = "called"
    /\ snapshot' = RunQuery(styleRules, BuildQuery(mediaType))
    /\ fetched' = RulesReturned(snapshot')
    /\ pc' = "returned"
    /\ UNCHANGED <<callVars, styleRules, mediaType, analyzeVars, exportVars,
                   snippetVars, routeVars>>

\* The query fails (the database cannot be reached, the request is refused): the
\* catch block of lines 779-786.
QueryFail ==
    /\ pc = "called"
    /\ fetched' = RuleFetchCaught
    /\ pc' = "caught"
    /\ UNCHANGED <<callVars, styleRules, mediaType, snapshot, analyzeVars,
                   exportVars, snippetVars, routeVars>>

NextRules == QueryGet \/ QueryFail

SpecRules == InitRules /\ [][NextRules]_vars

(***************************************************************************)
(* The API server: the api-key middleware and the /api/analyze handler     *)
(* (lines 448-492), for two requests whose steps interleave at the awaits. *)
(***************************************************************************)
ApiKey == "key"

\* Variant: a test that refuses a request without a key and lets through one
\* with a key of any value.
KeyMissing(apiKey) == apiKey = "undefined" \/ apiKey = ""

\* !apiKey || apiKey !== process.env.API_KEY
KeyRefused(apiKey) == apiKey = "undefined" \/ apiKey = "" \/ apiKey # ApiKey

RuleStores ==
    { <<>>,
      <<DocAmbiguous(<<"a">>, TRUE, {"news"})>>,
      <<DocAmbiguous(<<"a">>, TRUE, {"news"}), DocMediaSpecific(<<"(">>, {"blog"})>> }

HttpInputs ==
    { [apiKey |-> ApiKey,
       body |-> [text |-> t, mediaType |-> mt, detailedAnalysis |-> d]] :
        t \in {<<>>, <<" ">>, <<"a", ".">>}, mt \in {"undefined", "news", "blog"},
        d \in BOOLEAN }
    \cup { [apiKey |-> k, body |-> [text |-> <<"a", ".">>, mediaType |-> "news",
                                    detailedAnalysis |-> FALSE]] :
             k \in {"undefined", "wrong"} }

Init ==
    /\ styleRules \in RuleStores
    /\ NoServer
    /\ pc = "none" /\ NoCall /\ NoFetch
    /\ NoExport /\ NoSnippets /\ NoRoutes

Reply(status, body) == [status |-> status, body |-> body]

\* A request arrives: authenticateApiKey, then the handler down to its first
\* await, the query.get() of getMediaRules.
Arrive(r) ==
    /\ requests[r].pc = "idle"
    /\ \E in \in HttpInputs :
          requests' = [requests EXCEPT ![r] =
              IF KeyRefused(in.apiKey)
              THEN [@ EXCEPT !.pc = "responded", !.apiKey = in.apiKey, !.body = in.body,
                             !.response = Reply(401, [error |-> <<"invalid API key">>])]
              ELSE IF Len(in.body.text) = 0
              THEN [@ EXCEPT !.pc = "responded", !.apiKey = in.apiKey, !.body = in.body,
                             !.response = Reply(400, [error |-> <<"no text given">>])]
              ELSE [@ EXCEPT !.pc = "fetching", !.apiKey = in.apiKey, !.body = in.body]]
    /\ UNCHANGED <<callVars, pc, styleRules, fetchVars, storeReads, exportVars,
                   snippetVars, routeVars>>

\* What the handler does with what getMediaRules returned or threw.
AfterFetch(req, ret, log) ==
    IF ret.threw
    THEN [req EXCEPT !.pc = "caught", !.analysis = ret, !.log = log]
    ELSE [req EXCEPT !.pc = "fetched", !.mediaRules = ret.value, !.log = log]

\* Variant: a query answered from what an earlier query for the same media
\* type returned, when there is one.
QuerySnapshotCached(r) ==
    LET earlier == {o \in Requests :
                       /\ storeReads[o] # <<>>
                       /\ storeReads[o][1].ok
                       /\ requests[o].body.mediaType = requests[r].body.mediaType}
    IN  IF earlier = {}
        THEN RunQuery(styleRules, BuildQuery(requests[r].body.mediaType))
        ELSE storeReads[CHOOSE o \in earlier : TRUE][1].docs

\* await query.get() at line 748, for the query of the request, on the
\* collection as it is now.
QuerySnapshot(r) == RunQuery(styleRules, BuildQuery(requests[r].body.mediaType))

\* The query of a request is answered.
QueryReturns(r) ==
    /\ requests[r].pc = "fetching"
    /\ LET docs == QuerySnapshot(r)
       IN  /\ requests' = [requests EXCEPT ![r] =
                  AfterFetch(@, RulesReturned(docs), @.log)]
           /\ storeReads' = [storeReads EXCEPT ![r] =
                  Append(@, [ok |-> TRUE, docs |-> docs])]
    /\ UNCHANGED <<callVars, pc, styleRules, fetchVars, exportVars, snippetVars,
                   routeVars>>

\* The query of a request fails; console.error at line 780.
QueryFails(r) ==
    /\ requests[r].pc = "fetching"
    /\ requests' = [requests EXCEPT ![r] =
           AfterFetch(@, RuleFetchCaught, Append(@.log, "rule fetch error"))]
    /\ storeReads' = [storeReads EXCEPT ![r] = Append(@, [ok |-> FALSE, docs |-> <<>>])]
    /\ UNCHANGED <<callVars, pc, styleRules, fetchVars, exportVars, snippetVars,
                   routeVars>>

\* Variant: an analysis that reads the rules of the collection as it is now, state
\* that the requests share, where it is given the rules fetched for its request.
RulesOfCollection(req) ==
    RulesFrom(RunQuery(styleRules, BuildQuery(req.body.mediaType)), 1, EmptyRules)

\* The rules the handler passes to analyzeText at line 486: its own mediaRules.
RulesArgument(req) == req.mediaRules

\* The handler resumes with the rules and calls analyzeText; console.error at
\* line 898 when it throws.
Analyze(r) ==
    /\ requests[r].pc = "fetched"
    /\ LET req == requests[r]
           ret == analyzeText(req.body.text, RulesArgument(req), req.body.detailedAnalysis)
       IN  requests' = [requests EXCEPT ![r] =
               [@ EXCEPT !.pc = IF ret.threw THEN "caught" ELSE "analyzed",
                         !.analysis = ret,
                         !.log = IF ret.threw THEN Append(@, "analysis error") ELSE @]]
    /\ UNCHANGED <<callVars, pc, styleRules, fetchVars, storeReads, exportVars,
                   snippetVars, routeVars>>

\* res.json(analysisResult) at line 488, or next(error) at line 490 and the
\* errorHandler of lines 463-466.
Respond(r) ==
    /\ requests[r].pc \in {"analyzed", "caught"}
    /\ requests' = [requests EXCEPT ![r] =
           IF @.analysis.threw
           THEN [@ EXCEPT !.pc = "responded", !.log = Append(@, "API error"),
                          !.response = Reply(500, [error |-> requests[r].analysis.message])]
           ELSE [@ EXCEPT !.pc = "responded",
                          !.response = Reply(200, requests[r].analysis.value)]]
    /\ UNCHANGED <<callVars, pc, styleRules, fetchVars, storeReads, exportVars,
                   snippetVars, routeVars>>

\* An administrator rewrites the styleRules collection (lines 15-21).
StoreWrite ==
    /\ \E store \in RuleStores : store # styleRules /\ styleRules' = store
    /\ UNCHANGED <<callVars, pc, fetchVars, analyzeVars, exportVars, snippetVars,
                   routeVars>>

Next ==
    \/ StoreWrite
    \/ \E r \in Requests :
           Arrive(r) \/ QueryReturns(r) \/ QueryFails(r) \/ Analyze(r) \/ Respond(r)

Spec == Init /\ [][Next]_vars

(***************************************************************************)
(* generatePDF, uploadToStorage and uploadToDrive (src/export.js).  An     *)
(* option of the options object is <<>> when it is left out and <<v>> when *)
(* it is given as v; an options object left out is the one without any     *)
(* option.  The document keeps what generatePDF puts in it, not its layout.*)
(***************************************************************************)
DefaultFontSize == 11
HeaderStep == 2

DefaultTitle == "TextStation document"

OrDefault(option, default) == IF option = <<>> THEN default ELSE option[1]

\* The switch of lines 62-74.
FontFamily(font) ==
    CASE font = "meiryo" -> "fonts/meiryo.ttf"
      [] font = "gothic" -> "fonts/msgothic.ttf"
      [] font = "mincho" -> "fonts/msmincho.ttf"
      [] OTHER -> "fonts/NotoSansJP-Regular.ttf"

\* results && results.trim() !== '', for results left out (<<"undefined">>) or a
\* string.
HasResults(results) == results # <<"undefined">> /\ Len(results) > 0 /\ Trim(results) # <<>>

\* The document of lines 38-140.
BuildDocument(txt, results, options) ==
    LET title    == OrDefault(options.title, DefaultTitle)
        fontSize == OrDefault(options.fontSize, DefaultFontSize)
    IN  [title    |-> title,
         font     |-> FontFamily(OrDefault(options.font, "noto")),
         fontSize |-> fontSize,
         header   |-> IF OrDefault(options.includeHeader, TRUE)
                      THEN <<[text |-> title, size |-> fontSize + HeaderStep,
                              dateSize |-> fontSize - HeaderStep]>>
                      ELSE <<>>,
         body     |-> txt,
         results  |-> IF HasResults(results) THEN <<results>> ELSE <<>>,
         footer   |-> IF OrDefault(options.includeFooter, TRUE)
                      THEN <<[size |-> fontSize - HeaderStep]>> ELSE <<>>]

\* `${title}.pdf` and `exports/${filename}`
FileName(title) == <<title, ".pdf">>
StoragePath(filename) == <<"exports/">> \o filename

\* The catch block of generatePDF, lines 163-166.
PdfError(cause) == [threw |-> TRUE, message |-> <<"PDF generation failed">> \o cause]

\* The catch block of uploadToStorage, lines 203-206.
StorageError(cause) == <<"storage upload failed">> \o cause

\* Variant: a catch block that throws on, as the one of uploadToStorage does.
DriveFailureRethrown(cause) ==
    [threw |-> TRUE, message |-> <<"drive upload failed">> \o cause]

\* The catch block of uploadToDrive, lines 241-245: null.
DriveFailure(cause) == [threw |-> FALSE, value |-> <<"null">>]

\* `https://drive.google.com/file/d/${fileId}/view`
WebViewLink(fileId) == <<"https://drive.google.com/file/d/", fileId, "/view">>

\* The object returned at lines 157-162.
ExportResult(title, storageUrl, driveUrl) ==
    [success |-> TRUE, title |-> title, url |-> storageUrl, driveUrl |-> driveUrl]

ExportOptions ==
    [title : {<<>>, <<"t">>},
     font : {<<>>, <<"meiryo">>, <<"gothic">>, <<"mincho">>, <<"comic">>},
     fontSize : {<<>>, <<9>>},
     includeHeader : {<<>>, <<TRUE>>, <<FALSE>>},
     includeFooter : {<<>>, <<TRUE>>, <<FALSE>>}]

ExportTexts == {<<"a">>, <<"a", "\n", "b">>}

ExportResults == {<<"undefined">>, <<>>, <<" ">>, <<"r">>}

\* The bucket before the call: empty, or with an export of the title "t".
Buckets ==
    { {},
      {[path |-> StoragePath(FileName("t")),
        content |-> BuildDocument(<<"o">>, <<>>, [title |-> <<"t">>, font |-> <<>>,
                                                  fontSize |-> <<>>,
                                                  includeHeader |-> <<>>,
                                                  includeFooter |-> <<>>])]} }

InitExport ==
    /\ \E txt \in ExportTexts, results \in ExportResults, options \in ExportOptions,
          bucket \in Buckets :
          exportCall = [pc |-> "called", text |-> txt, results |-> results,
                        options |-> options, bucket |-> bucket, drive |-> <<>>,
                        uploads |-> <<>>, storageUrl |-> <<"undefined">>,
                        driveUrl |-> <<"undefined">>, log |-> <<>>,
                        outcome |-> NoOutcome]
    /\ pc = "none" /\ styleRules = <<>>
    /\ NoCall /\ NoFetch /\ NoServer /\ NoSnippets /\ NoRoutes

ExportUnchanged ==
    UNCHANGED <<callVars, pc, styleRules, fetchVars, analyzeVars, snippetVars, routeVars>>

\* The title of the call and the file that the uploads carry.
ExportTitle == OrDefault(exportCall.options.title, DefaultTitle)
PdfBuffer == BuildDocument(exportCall.text, exportCall.results, exportCall.options)

\* generatePDF fails: what its catch block logs and throws.
ExportThrows(call, causeLog, cause) ==
    [call EXCEPT !.pc = "thrown", !.log = @ \o causeLog \o <<"PDF error">>,
                 !.outcome = PdfError(cause)]

\* Lines 38-152 and 172-186: the document is made and uploadToStorage is
\* called, down to its await of file.save.
Render ==
    /\ exportCall.pc = "called"
    /\ exportCall' = [exportCall EXCEPT !.pc = "saving", !.uploads = Append(@, "storage")]
    /\ ExportUnchanged

\* The document cannot be made (the font file is missing, the stream fails).
RenderFails ==
    /\ exportCall.pc = "called"
    /\ exportCall' = ExportThrows(exportCall, <<>>, <<"no document">>)
    /\ ExportUnchanged

\* file.save of line 186 succeeds: the bucket holds the file, in place of one of
\* the same path; getSignedUrl is awaited.
StorageSave ==
    /\ exportCall.pc = "saving"
    /\ LET path == StoragePath(FileName(ExportTitle))
       IN  exportCall' =
               [exportCall EXCEPT
                    !.pc = "signing",
                    !.bucket = {f \in @ : f.path # path}
                                   \cup {[path |-> path, content |-> PdfBuffer]}]
    /\ ExportUnchanged

\* file.save fails: the catch blocks of uploadToStorage and of generatePDF.
StorageSaveFails ==
    /\ exportCall.pc = "saving"
    /\ exportCall' = ExportThrows(exportCall, <<"storage upload error">>,
                                  StorageError(<<"save refused">>))
    /\ ExportUnchanged

\* getSignedUrl of line 197 succeeds: uploadToStorage returns the url, and
\* uploadToDrive is called, down to its await of drive.files.create.
SignedUrl ==
    /\ exportCall.pc = "signing"
    /\ exportCall' =
           [exportCall EXCEPT
                !.pc = "driving",
                !.storageUrl = <<"signed url">> \o StoragePath(FileName(ExportTitle)),
                !.uploads = Append(@, "drive")]
    /\ ExportUnchanged

\* getSignedUrl fails: the file stays in the bucket.
SignedUrlFails ==
    /\ exportCall.pc = "signing"
    /\ exportCall' = ExportThrows(exportCall, <<"storage upload error">>,
                                  StorageError(<<"no signed url">>))
    /\ ExportUnchanged

\* What generatePDF does with what uploadToDrive returned or threw.
AfterDrive(call, ret) ==
    IF ret.threw
    THEN [call EXCEPT !.pc = "thrown", !.log = Append(@, "PDF error"),
                      !.outcome = PdfError(ret.message)]
    ELSE [call EXCEPT !.pc = "returned", !.driveUrl = ret.value,
                      !.outcome = [threw |-> FALSE,
                                   value |-> ExportResult(ExportTitle, call.storageUrl,
                                                          ret.value)]]

\* drive.files.create of line 222 succeeds: a new file, whatever the drive holds.
DriveCreate ==
    /\ exportCall.pc = "driving"
    /\ \E fileId \in {"f1", "f2"} :
          exportCall' =
              AfterDrive([exportCall EXCEPT
                              !.drive = Append(@, [id |-> fileId,
                                                   name |-> FileName(ExportTitle),
                                                   content |-> PdfBuffer])],
                         [threw |-> FALSE, value |-> WebViewLink(fileId)])
    /\ ExportUnchanged

\* drive.files.create fails, or the auth client cannot be made.
DriveCreateFails ==
    /\ exportCall.pc = "driving"
    /\ exportCall' = AfterDrive([exportCall EXCEPT !.log = Append(@, "drive upload error")],
                                DriveFailure(<<"create refused">>))
    /\ ExportUnchanged

NextExport ==
    \/ Render \/ RenderFails
    \/ StorageSave \/ StorageSaveFails
    \/ SignedUrl \/ SignedUrlFails
    \/ DriveCreate \/ DriveCreateFails

SpecExport == InitExport /\ [][NextExport]_vars

(***************************************************************************)
(* saveSnippet, updateSnippet and deleteSnippet (src/firestore.rules,      *)
(* lines 150-220) called MaxCalls times by two callers whose steps         *)
(* interleave at the awaits.  A document of the snippets collection is     *)
(* kept by its title and its isShared field; a field of the snippetData    *)
(* argument is <<>> when it is left out and <<v>> when it is given as v.   *)
(***************************************************************************)
MaxCalls == 3

Callers == {"c1", "c2"}

\* The document ids that doc() gives out, in this order.
NewIds == [k \in 1..MaxCalls |-> <<"n", k>>]

\* snapshot.exists is false: no document under the id.
Absent == [exists |-> FALSE]

Snippet(title, shared) == [exists |-> TRUE, title |-> title, isShared |-> shared]

Stored(id) == IF id \in DOMAIN snippets THEN snippets[id] ELSE Absent

\* The collections before the calls: ids <<"s", 1>> and <<"s", 2>>.
SnippetStores ==
    { (<<"s", 1>> :> Snippet("a", FALSE)),
      (<<"s", 1>> :> Snippet("a", TRUE)),
      (<<"s", 1>> :> Snippet("a", FALSE)) @@ (<<"s", 2>> :> Snippet("b", TRUE)) }

SnippetData ==
    { [title |-> <<"c">>, isShared |-> <<>>], [title |-> <<>>, isShared |-> <<TRUE>>],
      [title |-> <<"c">>, isShared |-> <<FALSE>>] }

\* The calls made so far, by all callers.
CallsMade == snippetCalls["c1"].calls + snippetCalls["c2"].calls

NoSnippetCall ==
    [op |-> "none", pc |-> "idle", id |-> <<"s", 0>>, data |-> [title |-> <<>>, isShared |-> <<>>],
     read |-> Absent, removed |-> Absent, message |-> <<>>, calls |-> 0]

InitSnippets ==
    /\ snippets \in SnippetStores
    /\ snippetCalls = [c \in Callers |-> NoSnippetCall]
    /\ pc = "none" /\ styleRules = <<>>
    /\ NoCall /\ NoFetch /\ NoServer /\ NoExport /\ NoRoutes

SnippetsUnchanged ==
    UNCHANGED <<callVars, pc, styleRules, fetchVars, analyzeVars, exportVars, routeVars>>

\* The id that the next doc() gives out: one that names no document yet.
NextId == NewIds[1 + Cardinality({k \in DOMAIN NewIds : NewIds[k] \in DOMAIN snippets})]

\* { ...snippetData, isShared: false, ... } of lines 154-159.
SavedSnippet(data) == Snippet(OrDefault(data.title, "untitled"), FALSE)

\* snippetRef.update({ ...snippetData, ... }) of lines 181-184: the fields given
\* replace those of the document.
Merged(doc, data) ==
    Snippet(OrDefault(data.title, doc.title), OrDefault(data.isShared, doc.isShared))

\* The catch blocks of lines 162-165, 187-190 and 215-219.
SnippetError(call, cause) ==
    [call EXCEPT !.pc = "thrown", !.message = <<call.op, "failed">> \o cause]

\* A caller calls one of the three functions, down to its first await: the
\* set of saveSnippet on a new document id, the get of the other two.
SnippetCall(c) ==
    /\ snippetCalls[c].pc \in {"idle", "returned", "thrown"}
    /\ CallsMade < MaxCalls
    /\ \E op \in {"saveSnippet", "updateSnippet", "deleteSnippet"},
          id \in DOMAIN snippets \cup {<<"s", 3>>}, data \in SnippetData :
          LET call == [NoSnippetCall EXCEPT !.op = op, !.calls = snippetCalls[c].calls + 1]
          IN  IF op = "saveSnippet"
              THEN /\ snippetCalls' = [snippetCalls EXCEPT ![c] =
                          [call EXCEPT !.pc = "setting", !.id = NextId, !.data = data]]
                   /\ snippets' = snippets @@ (NextId :> Absent)
              ELSE /\ snippetCalls' = [snippetCalls EXCEPT ![c] =
                          [call EXCEPT !.pc = "getting", !.id = id,
                                       !.data = IF op = "updateSnippet" THEN data
                                                ELSE NoSnippetCall.data]]
                   /\ UNCHANGED snippets
    /\ SnippetsUnchanged

\* snippetRef.set(...) of line 154 is done; saveSnippet returns the id.
SaveSet(c) ==
    /\ snippetCalls[c].op = "saveSnippet" /\ snippetCalls[c].pc = "setting"
    /\ snippets' = [snippets EXCEPT ![snippetCalls[c].id] = SavedSnippet(snippetCalls[c].data)]
    /\ snippetCalls' = [snippetCalls EXCEPT ![c].pc = "returned"]
    /\ SnippetsUnchanged

\* snippetRef.get() of line 174 is done: updateSnippet throws for a document that
\* does not exist, and else awaits its update.
UpdateGet(c) ==
    /\ snippetCalls[c].op = "updateSnippet" /\ snippetCalls[c].pc = "getting"
    /\ LET doc  == Stored(snippetCalls[c].id)
           call == [snippetCalls[c] EXCEPT !.read = doc]
       IN  snippetCalls' = [snippetCalls EXCEPT ![c] =
               IF ~doc.exists THEN SnippetError(call, <<"snippet not found">>)
               ELSE [call EXCEPT !.pc = "updating"]]
    /\ UNCHANGED snippets
    /\ SnippetsUnchanged

\* snippetRef.update(...) of line 181 is done: the document as it is now is
\* merged with the data; the database refuses the update of a document that
\* is no longer there.
UpdateWrite(c) ==
    /\ snippetCalls[c].op = "updateSnippet" /\ snippetCalls[c].pc = "updating"
    /\ LET id == snippetCalls[c].id
       IN  IF Stored(id).exists
           THEN /\ snippets' = [snippets EXCEPT ![id] = Merged(@, snippetCalls[c].data)]
                /\ snippetCalls' = [snippetCalls EXCEPT ![c].pc = "returned"]
           ELSE /\ snippetCalls' = [snippetCalls EXCEPT ![c] =
                       SnippetError(@, <<"no document to update">>)]
                /\ UNCHANGED snippets
    /\ SnippetsUnchanged

\* snippetRef.get() of line 199 is done: deleteSnippet throws for a document that
\* does not exist and for one that is shared, and else awaits its delete.
DeleteGet(c) ==
    /\ snippetCalls[c].op = "deleteSnippet" /\ snippetCalls[c].pc = "getting"
    /\ LET doc  == Stored(snippetCalls[c].id)
           call == [snippetCalls[c] EXCEPT !.read = doc]
       IN  snippetCalls' = [snippetCalls EXCEPT ![c] =
               IF ~doc.exists THEN SnippetError(call, <<"snippet not found">>)
               ELSE IF doc.isShared
               THEN SnippetError(call, <<"shared snippet cannot be deleted">>)
               ELSE [call EXCEPT !.pc = "deleting"]]
    /\ UNCHANGED snippets
    /\ SnippetsUnchanged

\* snippetRef.delete() of line 212 is done: the document as it is now is
\* removed, and deleteSnippet returns.
DeleteCommit(c) ==
    /\ snippetCalls[c].op = "deleteSnippet" /\ snippetCalls[c].pc = "deleting"
    /\ LET id == snippetCalls[c].id
       IN  /\ snippetCalls' = [snippetCalls EXCEPT ![c] =
                  [@ EXCEPT !.pc = "returned", !.removed = Stored(id)]]
           /\ snippets' = [snippets EXCEPT ![id] = Absent]
    /\ SnippetsUnchanged

\* The database call that a caller awaits fails: the catch block of its function.
SnippetAwaitFails(c) ==
    /\ snippetCalls[c].pc \in {"setting", "getting", "updating", "deleting"}
    /\ snippetCalls' = [snippetCalls EXCEPT ![c] = SnippetError(@, <<"database error">>)]
    /\ UNCHANGED snippets
    /\ SnippetsUnchanged

NextSnippets ==
    \E c \in Callers :
        \/ SnippetCall(c) \/ SaveSet(c)
        \/ UpdateGet(c) \/ UpdateWrite(c)
        \/ DeleteGet(c) \/ DeleteCommit(c)
        \/ SnippetAwaitFails(c)

SpecSnippets == InitSnippets /\ [][NextSnippets]_vars

(***************************************************************************)
(* The API server, every route (src/firestore.rules, lines 444-702): the   *)
(* middleware in the order of its app.use calls, then the handler of the   *)
(* route, for two requests whose steps interleave at the awaits.  A        *)
(* request is kept by its method, its api-key header, its path, whether    *)
(* its body can be parsed and whether the fields that the handler tests    *)
(* are given; a handler by the operations that it awaits, in order.        *)
(***************************************************************************)
Routes ==
    {"/api/test-connection", "/api/analyze", "/api/search", "/api/export-pdf",
     "/api/get-snippets", "/api/get-snippet", "/api/save-snippet",
     "/api/update-snippet", "/api/delete-snippet", "/api/aggregate-logs",
     "/api/create-backup", "/api/get-backups", "/api/restore-backup"}

\* The routes whose handler answers 400 when a field of the body is missing.
Validating ==
    {"/api/analyze", "/api/search", "/api/export-pdf", "/api/get-snippet",
     "/api/save-snippet", "/api/update-snippet", "/api/delete-snippet",
     "/api/restore-backup"}

\* The operations that the handler of a route awaits, in order.
Operations(route) ==
    CASE route = "/api/test-connection" -> <<>>
      [] route = "/api/analyze"         -> <<"getMediaRules", "analyzeText">>
      [] route = "/api/search"          -> <<"searchDrive">>
      [] route = "/api/export-pdf"      -> <<"generatePDF">>
      [] route = "/api/get-snippets"    -> <<"getSnippets">>
      [] route = "/api/get-snippet"     -> <<"getSnippet">>
      [] route = "/api/save-snippet"    -> <<"saveSnippet">>
      [] route = "/api/update-snippet"  -> <<"updateSnippet">>
      [] route = "/api/delete-snippet"  -> <<"deleteSnippet">>
      [] route = "/api/aggregate-logs"  -> <<"saveLogAggregation", "cleanupOldLogs">>
      [] route = "/api/create-backup"   -> <<"saveBackup", "cleanupOldBackups">>
      [] route = "/api/get-backups"     -> <<"getBackups">>
      [] route = "/api/restore-backup"  -> <<"getBackup">>

\* getMediaRules catches what its query throws (lines 779-786); the others throw.
MayThrow(operation) == operation # "getMediaRules"

\* getSnippet and getBackup return null for a document that they do not find,
\* and their handlers answer 404 (lines 550-552 and 691-693).
MayReturnNull(operation) == operation \in {"getSnippet", "getBackup"}

NoServed ==
    [pc |-> "idle", method |-> "none", apiKey |-> "undefined", path |-> "none",
     parsed |-> TRUE, fields |-> TRUE, started |-> <<>>, status |-> 0, log |-> <<>>]

HttpRequests ==
    [method : {"POST", "OPTIONS"}, apiKey : {"undefined", "", "wrong", ApiKey},
     path : Routes \cup {"/api/unknown"}, parsed : BOOLEAN, fields : BOOLEAN]

InitServer ==
    /\ served = [r \in Requests |-> NoServed]
    /\ pc = "none" /\ styleRules = <<>>
    /\ NoCall /\ NoFetch /\ NoServer /\ NoExport /\ NoSnippets

ServerUnchanged ==
    UNCHANGED <<callVars, pc, styleRules, fetchVars, analyzeVars, exportVars, snippetVars>>

Answered(req, status) == [req EXCEPT !.pc = "responded", !.status = status]

\* errorHandler, lines 463-466.
ErrorHandled(req) == Answered([req EXCEPT !.log = Append(@, "API error")], 500)

\* A request is received: cors() answers a preflight request; json() hands a
\* body that it cannot parse to the error handler, past the middleware and the
\* routes; authenticateApiKey; the router; the handler down to its first await.
Receive(r) ==
    /\ served[r].pc = "idle"
    /\ \E in \in HttpRequests :
          LET req == [NoServed EXCEPT !.method = in.method, !.apiKey = in.apiKey,
                                      !.path = in.path, !.parsed = in.parsed,
                                      !.fields = in.fields]
          IN  served' = [served EXCEPT ![r] =
                  IF in.method = "OPTIONS" THEN Answered(req, 204)
                  ELSE IF ~in.parsed THEN ErrorHandled(req)
                  ELSE IF KeyRefused(in.apiKey) THEN Answered(req, 401)
                  ELSE IF in.path \notin Routes THEN Answered(req, 404)
                  ELSE IF in.path \in Validating /\ ~in.fields THEN Answered(req, 400)
                  ELSE IF Operations(in.path) = <<>> THEN Answered(req, 200)
                  ELSE [req EXCEPT !.pc = "awaiting",
                                   !.started = <<Operations(in.path)[1]>>]]
    /\ ServerUnchanged

\* The operation in flight of a request.
Awaited(req) == req.started[Len(req.started)]

\* The operation returns: the handler starts its next one, or answers.
OperationReturns(r) ==
    /\ served[r].pc = "awaiting"
    /\ LET req  == served[r]
           todo == Operations(req.path)
       IN  served' = [served EXCEPT ![r] =
               IF Len(req.started) < Len(todo)
               THEN [req EXCEPT !.started = Append(@, todo[Len(req.started) + 1])]
               ELSE Answered(req, 200)]
    /\ ServerUnchanged

\* The operation returns null.
OperationFindsNone(r) ==
    /\ served[r].pc = "awaiting"
    /\ MayReturnNull(Awaited(served[r]))
    /\ served' = [served EXCEPT ![r] = Answered(@, 404)]
    /\ ServerUnchanged

\* The operation throws: next(error), and the error handler answers.
OperationThrows(r) ==
    /\ served[r].pc = "awaiting"
    /\ MayThrow(Awaited(served[r]))
    /\ served' = [served EXCEPT ![r] = ErrorHandled(@)]
    /\ ServerUnchanged

NextServer ==
    \E r \in Requests :
        \/ Receive(r)
        \/ OperationReturns(r) \/ OperationFindsNone(r) \/ OperationThrows(r)

SpecServer == InitServer /\ [][NextServer]_vars

(***************************************************************************)
(* Properties of analyzeText, checked under SpecAnalyze.                   *)
(***************************************************************************)
Returned == pc = "returned" /\ ~outcome.threw

\* A text that passes the guard: some code unit is no white space.
NonBlank(s) == \E i \in 1..Len(s) : s[i] \notin WhiteSpace

\* The entries emitted in the three issue lists of a result.
Issues(r) ==
    Len(r.ambiguousPhrases) + Len(r.repetitiveEndings) + Len(r.mediaSpecificIssues)

\* C1: for a text that passes the empty-input guard, mediaScore is
\* max(0, 100 - 5n) for the n entries emitted in the three issue lists: an
\* integer of 0..100, 85 for n = 3, 0 for n = 25, and no higher with one
\* entry more.
C1_ScoreFormula ==
    (Returned /\ NonBlank(text)) =>
        LET r == outcome.value
            n == Issues(r)
        IN  /\ r.mediaScore = (IF 100 - 5 * n > 0 THEN 100 - 5 * n ELSE 0)
            /\ r.mediaScore \in 0..100
            /\ n = 3 => r.mediaScore = 85
            /\ n = 25 => r.mediaScore = 0
            /\ MediaScore(n + 1) <= r.mediaScore

C1_Witness ==
    /\ Returned /\ NonBlank(text)
    /\ Issues(outcome.value) = 25
    /\ outcome.value.mediaScore = 0

\* C2: for an empty or blank text, every rule set and either flag, the call
\* returns mediaScore 0 and four empty lists; it evaluates no rule, so a rule
\* whose pattern does not compile cannot make it throw.
C2_EmptyInputGuard ==
    (pc = "returned" /\ ~NonBlank(text)) =>
        outcome = [threw |-> FALSE,
                   value |-> [mediaScore |-> 0, ambiguousPhrases |-> <<>>,
                              repetitiveEndings |-> <<>>,
                              mediaSpecificIssues |-> <<>>, improvements |-> <<>>]]

C2_Witness ==
    /\ pc = "returned" /\ Len(text) > 0 /\ ~NonBlank(text)
    /\ \E i \in 1..Len(mediaRules.ambiguousPhrases) :
           RegExpThrows(mediaRules.ambiguousPhrases[i].text)
    /\ detailedAnalysis
    /\ ~outcome.threw /\ outcome.value.mediaScore = 0

\* The ending key of a segment that is not blank, as a one-element sequence: the
\* last 5 code units of its trimmed form; the empty sequence for a blank segment.
EndingKeyOf(segment) ==
    IF NonBlank(segment) THEN <<SliceLast(Trim(segment), 5)>> ELSE <<>>

\* The ending keys of the segments of a text, segment by segment.
SegmentKeys(s) == LET segs == Split(s) IN [k \in DOMAIN segs |-> EndingKeyOf(segs[k])]

Occurrences(keys, key) == Cardinality({k \in DOMAIN keys : keys[k] = <<key>>})

KeysOf(keys) == {keys[k][1] : k \in {j \in DOMAIN keys : keys[j] # <<>>}}

\* C3: for a non-blank text, repetitiveEndings holds exactly one entry for each
\* ending key that occurs at least 3 times, with the exact number of
\* occurrences as its count, and none for a key that occurs once or twice.
C3_RepeatedEndings ==
    (Returned /\ NonBlank(text)) =>
        LET e    == outcome.value.repetitiveEndings
            keys == SegmentKeys(text)
        IN  /\ \A key \in KeysOf(keys) :
                   Cardinality({i \in DOMAIN e : e[i].pattern = key}) =
                       (IF Occurrences(keys, key) >= 3 THEN 1 ELSE 0)
            /\ \A i \in DOMAIN e :
                   /\ e[i].pattern \in KeysOf(keys)
                   /\ e[i].count = Occurrences(keys, e[i].pattern)
                   /\ e[i].suggestion[2] = e[i].count

\* A key that occurs 3 times exactly, beside one that occurs twice and one, cut
\* from a longer sentence, that occurs more often.
C3_Witness ==
    /\ Returned /\ NonBlank(text)
    /\ \E i \in DOMAIN outcome.value.repetitiveEndings :
           outcome.value.repetitiveEndings[i].count = 3
    /\ \E key \in KeysOf(SegmentKeys(text)) : Occurrences(SegmentKeys(text), key) = 2
    /\ \E k \in DOMAIN Split(text) : Len(Trim(Split(text)[k])) > 5

\* The first segment of a text that has the ending key.
FirstOccurrence(keys, key) ==
    CHOOSE k \in DOMAIN keys :
        /\ keys[k] = <<key>>
        /\ \A j \in 1..(k - 1) : keys[j] # <<key>>

\* C4: the entries of repetitiveEndings come in the order in which their ending
\* keys first occur in the text, digit-only keys included.
C4_FirstOccurrenceOrder ==
    (Returned /\ NonBlank(text)) =>
        LET e    == outcome.value.repetitiveEndings
            keys == SegmentKeys(text)
        IN  \A i, j \in DOMAIN e :
                i < j => FirstOccurrence(keys, e[i].pattern) <
                             FirstOccurrence(keys, e[j].pattern)

\* The start positions of the matches of a pattern source in a text.
MatchStarts(source, s) == {i \in 1..(Len(s) + 1) : MatchesAt(source, s, i)}

\* The most matches of a source that a text holds without two of them
\* overlapping (any two starts apart by the length of the source at least).
MaxDisjoint(source, s) ==
    LET apart(S) == \A i, j \in S : i < j => j - i >= Len(source)
        sizes    == {Cardinality(S) : S \in {T \in SUBSET MatchStarts(source, s) : apart(T)}}
    IN  CHOOSE n \in sizes : \A m \in sizes : m <= n

\* The k-th smallest element of a set of integers.
Nth(S, k) == CHOOSE i \in S : Cardinality({j \in S : j <= i}) = k

\* C5: for a non-blank text, ambiguousPhrases holds exactly one entry
\* {text, count, suggestion} for each rule that matches, in rule-list order,
\* none for a rule without a match, and count is the number of non-overlapping
\* case-sensitive matches of the rule in the text.
C5_AmbiguousPhrases ==
    (Returned /\ NonBlank(text)) =>
        LET rules   == mediaRules.ambiguousPhrases
            e       == outcome.value.ambiguousPhrases
            matched == {i \in DOMAIN rules : MatchStarts(rules[i].text, text) # {}}
        IN  /\ Len(e) = Cardinality(matched)
            /\ \A k \in DOMAIN e :
                   LET rule == rules[Nth(matched, k)]
                   IN  /\ e[k].text = rule.text
                       /\ e[k].suggestion = rule.suggestion
                       /\ e[k].count >= 1
                       /\ e[k].count <= Cardinality(MatchStarts(rule.text, text))
                       /\ Len(text) <= 8 => e[k].count = MaxDisjoint(rule.text, text)

\* Two entries in rule order though the second rule matches earlier in the text,
\* and more than once.
C5_Witness ==
    /\ Returned /\ NonBlank(text)
    /\ LET e == outcome.value.ambiguousPhrases
       IN  /\ Len(e) = 2
           /\ \E i \in MatchStarts(e[2].text, text) :
                  \A j \in MatchStarts(e[1].text, text) : i < j
           /\ e[2].count >= 2

\* The rules of a rule set that analyzeText evaluates, and those that fail.
EvaluatedSources(rules) ==
    {rules.ambiguousPhrases[i].text : i \in DOMAIN rules.ambiguousPhrases}
        \cup {rules.mediaSpecificRules[i].pattern : i \in DOMAIN rules.mediaSpecificRules}

Uncompilable(source) == "(" \in {source[i] : i \in DOMAIN source}

\* C7: when a rule fails to evaluate on a non-blank text, the call throws an
\* analysis failure whose message names the cause, and returns no result: no
\* findings of the rules before the failing one, no score.
C7_AnalysisFailure ==
    (pc = "returned" /\ NonBlank(text)
        /\ \E source \in EvaluatedSources(mediaRules) : Uncompilable(source)) =>
        /\ outcome.threw
        /\ DOMAIN outcome = {"threw", "message"}
        /\ outcome.message[1] = "text analysis failed"
        /\ \E source \in EvaluatedSources(mediaRules) :
               /\ Uncompilable(source)
               /\ outcome.message = <<"text analysis failed",
                                      "Invalid regular expression", source>>

\* The failing rule comes after a rule that matched.
C7_Witness ==
    /\ pc = "returned" /\ NonBlank(text) /\ outcome.threw
    /\ LET rules == mediaRules.ambiguousPhrases
       IN  /\ Len(rules) >= 1
           /\ ~Uncompilable(rules[1].text)
           /\ MatchStarts(rules[1].text, text) # {}
           /\ \/ Len(rules) = 2 /\ Uncompilable(rules[2].text)
              \/ \E i \in DOMAIN mediaRules.mediaSpecificRules :
                     Uncompilable(mediaRules.mediaSpecificRules[i].pattern)

\* The number of segments of a text: one more than its sentence terminators.
Segments(s) == 1 + Cardinality({i \in 1..Len(s) : s[i] \in SentenceEnd})

\* m is the average segment length of the text rounded: m - 1/2 <= avg < m + 1/2.
IsRoundedAverage(m, s) ==
    /\ (2 * m - 1) * Segments(s) <= 2 * Len(s)
    /\ 2 * Len(s) < (2 * m + 1) * Segments(s)

HasAdvice(imp, kind) == \E i \in DOMAIN imp : imp[i][1] = kind

\* C8 as stated, for every text, the blank ones too: without the detailed flag
\* improvements is the baseline advisory alone, there exactly when
\* mediaScore < 70; with the flag the length advisory is there exactly when
\* the average segment length exceeds 50.
C8_ForEveryText ==
    Returned =>
        LET imp   == outcome.value.improvements
            score == outcome.value.mediaScore
        IN  /\ ~detailedAnalysis =>
                   imp = (IF score < 70 THEN <<<<"baseline">>>> ELSE <<>>)
            /\ detailedAnalysis =>
                   (HasAdvice(imp, "length") <=> Len(text) > 50 * Segments(text))

\* C8, amended: the same for every text that is not blank; the length advisory
\* names the rounded average, and the baseline advisory comes first in both modes.
C8_DetailedGating ==
    (Returned /\ NonBlank(text)) =>
        LET imp   == outcome.value.improvements
            score == outcome.value.mediaScore
        IN  /\ ~detailedAnalysis =>
                   imp = (IF score < 70 THEN <<<<"baseline">>>> ELSE <<>>)
            /\ HasAdvice(imp, "baseline") <=> score < 70
            /\ detailedAnalysis =>
                   /\ HasAdvice(imp, "length") <=> Len(text) > 50 * Segments(text)
                   /\ Cardinality({i \in DOMAIN imp : imp[i][1] = "length"}) <= 1
                   /\ \A i \in DOMAIN imp :
                          imp[i][1] = "length" => IsRoundedAverage(imp[i][2], text)

\* Without the flag, a text past both thresholds of the detailed analysis and a
\* score under 70: the baseline advisory alone.
C8_Witness ==
    /\ Returned /\ NonBlank(text) /\ ~detailedAnalysis
    /\ Len(text) > 50 * Segments(text)
    /\ Cardinality({i \in 1..Len(text) : text[i] \notin WhiteSpace}) > 400 * Segments(text)
    /\ outcome.value.mediaScore < 70
    /\ outcome.value.improvements = <<<<"baseline">>>>

\* A text with terminators appended: 1 to MaxTerminators times the same one.
Appended(s) ==
    {s \o Repeat(term, n) : term \in SentenceEnd, n \in 1..MaxTerminators}

\* The length advisory of the detailed analysis of a text under the rules of
\* the call.
LengthAdvised(s) ==
    LET ret == analyzeText(s, mediaRules, TRUE)
    IN  ~ret.threw /\ HasAdvice(ret.value.improvements, "length")

\* C13 as stated, for every text, the blank ones too: in detailed mode the
\* length advisory is there exactly when text.length > 50 * segmentCount, the
\* segments counted with the empty ones, and a text without the advisory has
\* none either with terminators appended.
C13_ForEveryText ==
    (Returned /\ detailedAnalysis) =>
        LET imp == outcome.value.improvements
        IN  /\ Len(Split(text)) = Segments(text)
            /\ HasAdvice(imp, "length") <=> Len(text) > 50 * Segments(text)
            /\ ~HasAdvice(imp, "length") =>
                   \A longer \in Appended(text) : ~LengthAdvised(longer)

\* C13, amended: the same for every text that is not blank; the advisory names
\* the length of the text divided by the number of its segments, rounded.  (A
\* blank text has no advisory whatever its length, and gets one when a
\* terminator appended makes it pass the guard.)
C13_SegmentAverage ==
    (Returned /\ detailedAnalysis /\ NonBlank(text)) =>
        LET imp == outcome.value.improvements
        IN  /\ Len(Split(text)) = Segments(text)
            /\ HasAdvice(imp, "length") <=> Len(text) > 50 * Segments(text)
            /\ \A i \in DOMAIN imp :
                   imp[i][1] = "length" =>
                       /\ (2 * imp[i][2] - 1) * Segments(text) <= 2 * Len(text)
                       /\ 2 * Len(text) < (2 * imp[i][2] + 1) * Segments(text)
            /\ ~HasAdvice(imp, "length") =>
                   \A longer \in Appended(text) : ~LengthAdvised(longer)

\* A text that ends with two terminators, so with two empty segments, and has
\* no advisory, where the text without its last terminator has one.
C13_Witness ==
    /\ Returned /\ detailedAnalysis /\ NonBlank(text)
    /\ Len(text) > 2
    /\ text[Len(text)] \in SentenceEnd /\ text[Len(text) - 1] \in SentenceEnd
    /\ ~HasAdvice(outcome.value.improvements, "length")
    /\ LengthAdvised(SubSeq(text, 1, Len(text) - 1))

(***************************************************************************)
(* Properties of getMediaRules, checked under SpecRules, and of the        *)
(* /api/analyze handler, checked under Spec.                               *)
(***************************************************************************)
\* The result of an analysis that finds nothing.
CleanResult(score) ==
    [mediaScore |-> score, ambiguousPhrases |-> <<>>, repetitiveEndings |-> <<>>,
     mediaSpecificIssues |-> <<>>, improvements |-> <<>>]

FetchFailed(req) == \E i \in DOMAIN req.log : req.log[i] = "rule fetch error"

\* C6: when the query of the rule store fails, getMediaRules does not throw but
\* returns three empty lists, and the request is answered with the result of
\* the analysis under the empty rule set, never with an error.
C6_FetchFailureSwallowed ==
    \A r \in Requests :
        LET req == requests[r]
        IN  FetchFailed(req) =>
                /\ req.pc \in {"fetched", "analyzed", "responded"}
                /\ req.mediaRules = [ambiguousPhrases |-> <<>>, repetitivePatterns |-> <<>>,
                                     mediaSpecificRules |-> <<>>]
                /\ req.log = <<"rule fetch error">>
                /\ req.pc = "responded" =>
                       req.response =
                           [status |-> 200,
                            body |-> CleanResult(IF NonBlank(req.body.text)
                                                 THEN 100 ELSE 0)]

\* A request answered after its fetch failed, while the collection holds a rule
\* for its media type that does not compile.
C6_Witness ==
    \E r \in Requests :
        /\ FetchFailed(requests[r])
        /\ requests[r].pc = "responded"
        /\ requests[r].response.status = 200
        /\ NonBlank(requests[r].body.text)
        /\ \E i \in DOMAIN styleRules :
               /\ styleRules[i].type = "mediaSpecific"
               /\ Uncompilable(styleRules[i].pattern)
               /\ requests[r].body.mediaType \in styleRules[i].mediaTypes

\* The analysis of a request has run.
Analysed(req) == req.analysis # NoOutcome

\* Two requests analysed with the same text, rules and flag have the same outcome.
SameArguments ==
    \A r1, r2 \in Requests :
        (/\ Analysed(requests[r1]) /\ Analysed(requests[r2])
         /\ requests[r1].body.text = requests[r2].body.text
         /\ requests[r1].mediaRules = requests[r2].mediaRules
         /\ requests[r1].body.detailedAnalysis = requests[r2].body.detailedAnalysis)
        => requests[r1].analysis = requests[r2].analysis

\* The rules of a request change only when its fetch returns.
RulesKept ==
    \A r \in Requests :
        requests'[r].mediaRules # requests[r].mediaRules => requests[r].pc = "fetching"

Validated(req) ==
    req.pc # "idle" /\ ~KeyRefused(req.apiKey) /\ Len(req.body.text) > 0

\* The rules that a read of the collection stands for: those of the documents
\* it returned, none when it failed.
RulesOfRead(read) == IF read.ok THEN RulesFrom(read.docs, 1, EmptyRules) ELSE EmptyRules

\* A request has read the collection once when it is past its fetch, and not
\* before; its analysis runs after the read, under the rules of that read.
ReadOnce ==
    \A r \in Requests :
        LET req == requests[r]
            n   == Len(storeReads[r])
        IN  /\ n <= 1
            /\ (Validated(req) /\ req.pc # "fetching") <=> n = 1
            /\ Analysed(req) => n = 1
            /\ n = 1 => req.mediaRules = RulesOfRead(storeReads[r][1])

\* A read is made for a request that awaits its rules, and returns the
\* documents that the collection holds for the request at that moment, whatever
\* the other request has read before.
FreshRead ==
    \A r \in Requests :
        storeReads'[r] # storeReads[r] =>
            /\ requests[r].pc = "fetching" /\ ~Analysed(requests[r])
            /\ Len(storeReads'[r]) = Len(storeReads[r]) + 1
            /\ LET read == storeReads'[r][Len(storeReads'[r])]
               IN  read.ok =>
                       read.docs = RunQuery(styleRules,
                                            BuildQuery(requests[r].body.mediaType))

\* C12: a request that passes validation reads the rule store exactly once,
\* before its analysis starts; the analysis runs under the rules of that read,
\* and a read returns the store as it is when the read is made, so a write to
\* the store between two requests shows in the rules of the second.
C12_OneFreshRead == [](ReadOnce) /\ [][FreshRead]_vars

\* Two requests with the same body, both answered, each after one read; the
\* store was rewritten between the reads, and the answers differ.
C12_Witness ==
    /\ requests["r1"].pc = "responded" /\ requests["r2"].pc = "responded"
    /\ requests["r1"].body = requests["r2"].body
    /\ Len(storeReads["r1"]) = 1 /\ Len(storeReads["r2"]) = 1
    /\ storeReads["r1"][1].ok /\ storeReads["r2"][1].ok
    /\ storeReads["r1"][1].docs # storeReads["r2"][1].docs
    /\ requests["r1"].response.status = 200 /\ requests["r2"].response.status = 200
    /\ requests["r1"].response # requests["r2"].response

\* The documents of a type among those returned, by position.
OfType(docs, type) == {i \in DOMAIN docs : docs[i].type = type}

\* C10: for the records that the query returns, getMediaRules returns a rule set
\* with all three lists; each record is in exactly the list of its type, in the
\* order of the records, and a record of another type is in none and raises
\* no error.
C10_Classification ==
    pc = "returned" =>
        /\ ~fetched.threw
        /\ DOMAIN fetched.value =
               {"ambiguousPhrases", "repetitivePatterns", "mediaSpecificRules"}
        /\ LET rules == fetched.value
               amb   == OfType(snapshot, "ambiguousPhrase")
               rep   == OfType(snapshot, "repetitivePattern")
               med   == OfType(snapshot, "mediaSpecific")
           IN  /\ Len(rules.ambiguousPhrases) = Cardinality(amb)
               /\ Len(rules.repetitivePatterns) = Cardinality(rep)
               /\ Len(rules.mediaSpecificRules) = Cardinality(med)
               /\ \A k \in DOMAIN rules.ambiguousPhrases :
                      rules.ambiguousPhrases[k] =
                          [text |-> snapshot[Nth(amb, k)].text,
                           suggestion |-> snapshot[Nth(amb, k)].suggestion]
               /\ \A k \in DOMAIN rules.repetitivePatterns :
                      rules.repetitivePatterns[k] =
                          [pattern |-> snapshot[Nth(rep, k)].pattern,
                           suggestion |-> snapshot[Nth(rep, k)].suggestion]
               /\ \A k \in DOMAIN rules.mediaSpecificRules :
                      rules.mediaSpecificRules[k] =
                          [pattern |-> snapshot[Nth(med, k)].pattern,
                           description |-> snapshot[Nth(med, k)].description,
                           mediaType |-> snapshot[Nth(med, k)].mediaType]

\* Three records returned: two of one type that differ, around one of a type
\* that getMediaRules does not know.
C10_Witness ==
    /\ pc = "returned"
    /\ Len(snapshot) = 3
    /\ snapshot[2].type = "memo"
    /\ Len(fetched.value.repetitivePatterns) = 2
    /\ fetched.value.repetitivePatterns[1] # fetched.value.repetitivePatterns[2]

\* The positions of a collection that a query for a media type is to return:
\* the active documents, and among them those of the media type when one is
\* asked for.
Wanted(collection, restricted, mt) ==
    {i \in DOMAIN collection :
        /\ collection[i].isActive = TRUE
        /\ restricted => mt \in collection[i].mediaTypes}

\* C11: the query of getMediaRules returns active records only; it returns
\* those whose media types contain mediaType when mediaType is given and is
\* not the name of the general media type, and every active record when
\* mediaType is left out, empty or that name.
C11_QueryRestriction ==
    pc = "returned" =>
        LET restricted == mediaType \in {"news", "blog"}
            kept       == Wanted(styleRules, restricted, mediaType)
        IN  /\ mediaType \in {"undefined", "", General} \cup {"news", "blog"}
            /\ Len(snapshot) = Cardinality(kept)
            /\ \A k \in DOMAIN snapshot : snapshot[k] = styleRules[Nth(kept, k)]
            /\ \A k \in DOMAIN snapshot : snapshot[k].isActive = TRUE
            /\ restricted =>
                   \A k \in DOMAIN snapshot : mediaType \in snapshot[k].mediaTypes
            /\ ~restricted =>
                   \A i \in DOMAIN styleRules :
                       styleRules[i].isActive =>
                           \E k \in DOMAIN snapshot : snapshot[k] = styleRules[i]

\* A query for the general media type over a collection with a record that is
\* not active: the two active records come back, of different media types,
\* none of them the general one.
C11_Witness ==
    /\ pc = "returned" /\ mediaType = General
    /\ \E i \in DOMAIN styleRules : ~styleRules[i].isActive
    /\ Len(snapshot) = 2
    /\ snapshot[1].mediaTypes # snapshot[2].mediaTypes
    /\ \A k \in DOMAIN snapshot : General \notin snapshot[k].mediaTypes

Logged(log, entry) == \E i \in DOMAIN log : log[i] = entry

\* C14: the upload to the bucket comes before the upload to the drive, which
\* is made only after the bucket has given its url; when the drive upload
\* fails generatePDF returns success with the url of the bucket and a null
\* driveUrl; when the upload to the bucket fails generatePDF throws and no
\* drive upload is made.
C14_UploadOrder ==
    LET call == exportCall
        path == StoragePath(FileName(ExportTitle))
    IN  /\ call.uploads \in {<<>>, <<"storage">>, <<"storage", "drive">>}
        /\ Logged(call.uploads, "drive") =>
               /\ call.storageUrl = <<"signed url">> \o path
               /\ \E f \in call.bucket : f.path = path /\ f.content = PdfBuffer
        /\ Logged(call.log, "drive upload error") =>
               /\ call.pc = "returned"
               /\ call.drive = <<>>
               /\ call.outcome =
                      [threw |-> FALSE,
                       value |-> [success |-> TRUE, title |-> ExportTitle,
                                  url |-> <<"signed url">> \o path,
                                  driveUrl |-> <<"null">>]]
        /\ Logged(call.log, "storage upload error") =>
               /\ call.pc = "thrown"
               /\ call.outcome.threw
               /\ call.outcome.message[1] = "PDF generation failed"
               /\ call.outcome.message[2] = "storage upload failed"
               /\ call.uploads = <<"storage">>
               /\ call.drive = <<>>
               /\ call.storageUrl = <<"undefined">> /\ call.driveUrl = <<"undefined">>

\* The drive upload has failed after the upload of a document with results, over
\* an export of the same title: generatePDF has returned.
C14_Witness ==
    /\ exportCall.pc = "returned"
    /\ Logged(exportCall.log, "drive upload error")
    /\ exportCall.outcome.value.success
    /\ exportCall.outcome.value.driveUrl = <<"null">>
    /\ exportCall.outcome.value.url = exportCall.storageUrl
    /\ HasResults(exportCall.results)
    /\ Cardinality(exportCall.bucket) = 1
    /\ \E f \in exportCall.bucket : f.content.body = exportCall.text

\* C15: deleteSnippet removes no shared snippet: a call that finds the snippet
\* shared, or finds none, throws and removes nothing, and a call that removes
\* a snippet removes one that is not shared, however the steps of the calls
\* of saveSnippet, updateSnippet and deleteSnippet interleave.
C15_SharedNeverRemoved ==
    \A c \in Callers :
        LET call == snippetCalls[c]
        IN  call.op = "deleteSnippet" =>
                /\ (call.read.exists /\ call.read.isShared) =>
                       call.pc = "thrown" /\ ~call.removed.exists
                /\ (call.pc \notin {"getting", "deleting"} /\ ~call.read.exists) =>
                       call.pc = "thrown" /\ ~call.removed.exists
                /\ call.removed.exists => ~call.removed.isShared

\* A request that has been received without the api key of the server.
Keyless(req) == req.pc # "idle" /\ req.apiKey # ApiKey

\* C16 as stated: a request without the api key of the server is answered 401,
\* and no operation of a handler is started for it.
C16_AlwaysUnauthorized ==
    \A r \in Requests :
        Keyless(served[r]) =>
            /\ served[r].pc = "responded"
            /\ served[r].started = <<>>
            /\ served[r].status = 401

\* C16, amended: no operation of a handler is started for a request without
\* the api key of the server, on any route and whatever the other request
\* does; the request is answered at once, 401 by authenticateApiKey when it
\* comes that far, 204 by cors() when it is a preflight request, 500 by the
\* error handler when its body cannot be parsed.
C16_NoHandlerWithoutKey ==
    \A r \in Requests :
        Keyless(served[r]) =>
            /\ served[r].pc = "responded"
            /\ served[r].started = <<>>
            /\ served[r].status =
                   (IF served[r].method = "OPTIONS" THEN 204
                    ELSE IF ~served[r].parsed THEN 500 ELSE 401)
            /\ served[r].log = (IF served[r].status = 500 THEN <<"API error">> ELSE <<>>)

\* A request with a wrong key and all its fields refused on a route that
\* deletes, while the handler of the other request, received before with
\* the key, awaits its second operation.
C16_Witness ==
    /\ served["r1"].apiKey = "wrong" /\ served["r1"].path = "/api/delete-snippet"
    /\ served["r1"].method = "POST" /\ served["r1"].parsed /\ served["r1"].fields
    /\ served["r1"].status = 401 /\ served["r1"].started = <<>>
    /\ served["r2"].pc = "awaiting"
    /\ served["r2"].started = <<"saveBackup", "cleanupOldBackups">>

====
